---- MODULE Spec2Model ----
(***************************************************************************)
(* Carbon-aware model router (Project-C12): the model service of           *)
(* src/src/api/services/model.py.  A query is a sequence of characters;    *)
(* a word is a maximal run of non-blank characters of the lower-cased      *)
(* query.  Requests are coroutines of one asyncio event loop.              *)
(***************************************************************************)
EXTENDS Integers, Sequences, FiniteSets, TLC

\* ------------------------------------------------------------------------
\* Keyword tables (model.py:55-83), one character per element.
\* ------------------------------------------------------------------------

COMPLEX_KEYWORDS ==
    { <<"a","n","a","l","y","z","e">>,
      <<"e","x","p","l","a","i","n">>,
      <<"c","o","m","p","a","r","e">>,
      <<"e","v","a","l","u","a","t","e">>,
      <<"s","y","n","t","h","e","s","i","z","e">>,
      <<"t","e","c","h","n","i","c","a","l">>,
      <<"d","e","t","a","i","l","e","d">>,
      <<"i","n","-","d","e","p","t","h">>,
      <<"c","o","m","p","r","e","h","e","n","s","i","v","e">> }

CODE_GENERAL ==
    { <<"c","o","d","e">>,
      <<"p","r","o","g","r","a","m">>,
      <<"f","u","n","c","t","i","o","n">>,
      <<"c","l","a","s","s">>,
      <<"a","l","g","o","r","i","t","h","m">>,
      <<"i","m","p","l","e","m","e","n","t">>,
      <<"d","e","b","u","g">>,
      <<"f","i","x">>,
      <<"e","r","r","o","r">>,
      <<"b","u","g">>,
      <<"c","o","m","p","i","l","e">>,
      <<"r","u","n","t","i","m","e">>,
      <<"s","y","n","t","a","x">> }

CODE_LANGUAGES ==
    { <<"p","y","t","h","o","n">>,
      <<"j","a","v","a","s","c","r","i","p","t">>,
      <<"t","y","p","e","s","c","r","i","p","t">>,
      <<"j","a","v","a">>,
      <<"c","+","+">>,
      <<"c","p","p">>,
      <<"r","u","s","t">>,
      <<"g","o">>,
      <<"h","t","m","l">>,
      <<"c","s","s">>,
      <<"s","q","l">>,
      <<"p","h","p">>,
      <<"s","w","i","f","t">>,
      <<"k","o","t","l","i","n">> }

CODE_CONCEPTS ==
    { <<"a","r","r","a","y">>,
      <<"s","t","r","i","n","g">>,
      <<"l","i","s","t">>,
      <<"d","i","c","t","i","o","n","a","r","y">>,
      <<"h","a","s","h">>,
      <<"t","r","e","e">>,
      <<"g","r","a","p","h">>,
      <<"s","t","a","c","k">>,
      <<"q","u","e","u","e">>,
      <<"r","e","c","u","r","s","i","o","n">>,
      <<"i","t","e","r","a","t","i","o","n">>,
      <<"l","o","o","p">>,
      <<"s","o","r","t">>,
      <<"s","e","a","r","c","h">>,
      <<"b","i","n","a","r","y">>,
      <<"a","p","i">>,
      <<"a","s","y","n","c">>,
      <<"p","r","o","m","i","s","e">>,
      <<"c","a","l","l","b","a","c","k">>,
      <<"o","b","j","e","c","t">>,
      <<"c","l","a","s","s">> }

TASK_GENERAL ==
    { <<"w","h","a","t">>,
      <<"w","h","o">>,
      <<"w","h","e","n">>,
      <<"w","h","e","r","e">>,
      <<"t","e","l","l">>,
      <<"d","e","s","c","r","i","b","e">> }

TASK_ANALYSIS ==
    { <<"w","h","y">>,
      <<"h","o","w">>,
      <<"a","n","a","l","y","z","e">>,
      <<"e","x","p","l","a","i","n">>,
      <<"c","o","m","p","a","r","e">> }

TASK_CODE ==
    { <<"g","e","n","e","r","a","l">>,
      <<"l","a","n","g","u","a","g","e","s">>,
      <<"c","o","n","c","e","p","t","s">> }

TASK_QA ==
    { <<"w","h","a","t"," ","i","s">>,
      <<"d","e","f","i","n","e">>,
      <<"m","e","a","n","i","n","g"," ","o","f">>,
      <<"d","i","f","f","e","r","e","n","c","e"," ","b","e","t","w","e","e","n">> }

\* ------------------------------------------------------------------------
\* Query texts
\* ------------------------------------------------------------------------
\* 'hello'
Q_hello ==
    <<"h","e","l","l","o">>

\* 'explain this python function'
Q_explain_python ==
    <<"e","x","p","l","a","i","n"," ","t","h","i","s"," ","p","y","t","h","o","n"," ","f","u","n","c","t","i","o","n">>

\* 'Fix Bug'
Q_fix_bug ==
    <<"F","i","x"," ","B","u","g">>

\* 'analyze why markets compare'
Q_analyze ==
    <<"a","n","a","l","y","z","e"," ","w","h","y"," ","m","a","r","k","e","t","s"," ","c","o","m","p","a","r","e">>

\* 'explain what happened'
Q_explain_what ==
    <<"e","x","p","l","a","i","n"," ","w","h","a","t"," ","h","a","p","p","e","n","e","d">>

\* 'define comprehensive'
Q_define ==
    <<"d","e","f","i","n","e"," ","c","o","m","p","r","e","h","e","n","s","i","v","e">>

\* 'explain general concepts'
Q_general_concepts ==
    <<"e","x","p","l","a","i","n"," ","g","e","n","e","r","a","l"," ","c","o","n","c","e","p","t","s">>

\* 'a b c d e f g h i j k l m n o p q r s t u'
Q_long ==
    <<"a"," ","b"," ","c"," ","d"," ","e"," ","f"," ","g"," ","h"," ","i"," ","j"," ","k"," ","l"," ","m"," ","n"," ","o"," ","p"," ","q"," ","r"," ","s"," ","t"," ","u">>

\* ''
Q_empty ==
    <<>>

\* CODE_KEYWORDS (model.py:61-75): category -> keyword set, in declaration order.
CODE_CATEGORIES ==
    <<"general", "languages", "concepts">>

CODE_KEYWORDS ==
    [c \in {"general", "languages", "concepts"} |->
        CASE c = "general"   -> CODE_GENERAL
          [] c = "languages" -> CODE_LANGUAGES
          [] c = "concepts"  -> CODE_CONCEPTS]

\* TASK_KEYWORDS (model.py:78-83) in declaration order.  The "code" entry is the
\* CODE_KEYWORDS dict itself, so iterating it yields its keys (TASK_CODE).
\* the categories in another order
TASK_ORDER_qa_second ==
    <<"general", "qa", "analysis", "code">>

TASK_ORDER ==
    <<"general", "analysis", "code", "qa">>

TASK_KEYWORDS ==
    [t \in {"general", "analysis", "code", "qa"} |->
        CASE t = "general"  -> TASK_GENERAL
          [] t = "analysis" -> TASK_ANALYSIS
          [] t = "code"     -> TASK_CODE
          [] t = "qa"       -> TASK_QA]

\* ------------------------------------------------------------------------
\* String primitives.
\* ------------------------------------------------------------------------
UPPER ==
    <<"A","B","C","D","E","F","G","H","I","J","K","L","M",
      "N","O","P","Q","R","S","T","U","V","W","X","Y","Z">>

LOWER ==
    <<"a","b","c","d","e","f","g","h","i","j","k","l","m",
      "n","o","p","q","r","s","t","u","v","w","x","y","z">>

\* str.lower(), character by character
LowerChar(c) ==
    IF \E i \in 1..Len(UPPER) : UPPER[i] = c
    THEN LOWER[CHOOSE i \in 1..Len(UPPER) : UPPER[i] = c]
    ELSE c

Lower(s) ==
    [i \in 1..Len(s) |-> LowerChar(s[i])]

IsSpace(c) ==
    c \in {" ", "\t", "\n", "\r"}

\* set(s.split()): the maximal runs of non-blank characters, duplicates collapsed
SplitWords(s) ==
    LET starts == { i \in 1..Len(s) :
                      /\ ~IsSpace(s[i])
                      /\ (i = 1 \/ IsSpace(s[i - 1])) }
        EndOf(i) == CHOOSE j \in i..Len(s) :
                      /\ \A k \in i..j : ~IsSpace(s[k])
                      /\ (j = Len(s) \/ IsSpace(s[j + 1]))
    IN  { SubSeq(s, i, EndOf(i)) : i \in starts }

\* kw in w (substring test)
Contains(kw, w) ==
    \E i \in 1..(Len(w) - Len(kw) + 1) : SubSeq(w, i, i + Len(kw) - 1) = kw

\* ------------------------------------------------------------------------
\* ModelService._analyze_query (model.py:174-224)
\* ------------------------------------------------------------------------
\* first key with the maximal score, in dict order: max(task_scores.items(), key=...)
FirstMax(scores) ==
    LET best == CHOOSE i \in 1..Len(TASK_ORDER) :
                  /\ \A j \in 1..Len(TASK_ORDER) :
                        scores[TASK_ORDER[j]] <= scores[TASK_ORDER[i]]
                  /\ \A j \in 1..(i - 1) :
                        scores[TASK_ORDER[j]] < scores[TASK_ORDER[i]]
    IN  TASK_ORDER[best]

\* the code override that forces the task type only
SpecialHandlingTaskOnly(is_code_query, primary_task, is_complex) ==
    [ primary_task |-> IF is_code_query THEN "code" ELSE primary_task,
      is_complex   |-> is_complex ]

\* model.py:212-215: a code query is typed "code" and complex
SpecialHandling(is_code_query, primary_task, is_complex) ==
    IF is_code_query
    THEN [primary_task |-> "code", is_complex |-> TRUE]
    ELSE [primary_task |-> primary_task, is_complex |-> is_complex]

\* the division evaluated whatever the word set
DivisionEvaluatedAlways(words) ==
    TRUE

\* model.py:194: `total_matches / len(words) if words else 0` evaluates the
\* division only for a non-empty word set
DivisionEvaluated(words) ==
    words # {}

\* whether _analyze_query(query) raises: its only partial operation is the
\* division at model.py:194 (ZeroDivisionError for a zero divisor); max() at
\* model.py:210 is applied to the four items of task_scores
_analyze_query_raises(query) ==
    LET words == SplitWords(Lower(query))
    IN  DivisionEvaluated(words) /\ Cardinality(words) = 0

_analyze_query(query) ==
    LET words == SplitWords(Lower(query))
        matches == [c \in DOMAIN CODE_KEYWORDS |->
                      Cardinality(words \cap CODE_KEYWORDS[c])]
        total_matches == matches["general"] + matches["languages"] + matches["concepts"]
        \* code_score > 0.05 with code_score = total_matches / len(words), 0 if no words
        score_over == words # {} /\ total_matches * 20 > Cardinality(words)
        is_code_query == matches["languages"] > 0 \/ score_over
        is_complex == (words \cap COMPLEX_KEYWORDS # {}) \/ Cardinality(words) > 20
        task_scores == [t \in DOMAIN TASK_KEYWORDS |->
                          Cardinality({ w \in words :
                              \E kw \in TASK_KEYWORDS[t] : Contains(kw, w) })]
        primary_task == FirstMax(task_scores)
        special == SpecialHandling(is_code_query, primary_task, is_complex)
    IN  [ is_complex  |-> special.is_complex,
          is_code     |-> is_code_query,
          code_score  |-> <<total_matches, Cardinality(words)>>,
          task_type   |-> special.primary_task,
          task_scores |-> task_scores,
          word_count  |-> Cardinality(words) ]

\* ------------------------------------------------------------------------
\* ModelService._get_carbon_tier (model.py:226-241), CARBON_THRESHOLDS (48-52)
\* ------------------------------------------------------------------------
CARBON_LOW == 100
CARBON_MEDIUM == 300

\* the low threshold used for both comparisons
_get_carbon_tier_one_threshold(carbon) ==
    IF carbon < CARBON_LOW THEN "low"
    ELSE IF carbon < CARBON_LOW THEN "medium"
    ELSE "high"

\* the thresholds compared with <= instead of <
_get_carbon_tier_inclusive(carbon) ==
    IF carbon <= CARBON_LOW THEN "low"
    ELSE IF carbon <= CARBON_MEDIUM THEN "medium"
    ELSE "high"

\* the results of the last two branches exchanged
_get_carbon_tier_swapped(carbon) ==
    IF carbon < CARBON_LOW THEN "low"
    ELSE IF carbon < CARBON_MEDIUM THEN "high"
    ELSE "medium"

_get_carbon_tier(carbon) ==
    IF carbon < CARBON_LOW THEN "low"
    ELSE IF carbon < CARBON_MEDIUM THEN "medium"
    ELSE "high"

\* ------------------------------------------------------------------------
\* Model catalog: MODEL_INFO (model.py:26-45)
\* ------------------------------------------------------------------------
\* the catalog walked from its last entry to its first
MODEL_ORDER_reversed ==
    <<"codellama", "gpt2", "tinyllama">>

\* dict iteration order of MODEL_INFO (declaration order)
MODEL_ORDER ==
    <<"tinyllama", "gpt2", "codellama">>

ModelNames ==
    { MODEL_ORDER[i] : i \in 1..Len(MODEL_ORDER) }

MODEL_INFO ==
    [m \in {"tinyllama", "gpt2", "codellama"} |->
        CASE m = "tinyllama" -> [capabilities |-> {"general", "qa", "classification"}]
          [] m = "gpt2"      -> [capabilities |-> {"general", "qa", "analysis"}]
          [] m = "codellama" -> [capabilities |-> {"code", "analysis", "technical"}]]

\* another catalog entry returned by default
BASELINE_gpt2 ==
    "gpt2"

\* the model returned at model.py:282
BASELINE ==
    "tinyllama"

\* ------------------------------------------------------------------------
\* Inputs
\* ------------------------------------------------------------------------
NumRequests == 2

Requests ==
    1..NumRequests

Queries ==
    {Q_hello, Q_explain_python, Q_fix_bug, Q_analyze, Q_explain_what,
     Q_define, Q_general_concepts, Q_long, Q_empty}

\* carbon readings in gCO2/kWh: both sides of each threshold
Readings ==
    {80, 299, 300, 520}

None ==
    "None"

\* ------------------------------------------------------------------------
\* State
\* ------------------------------------------------------------------------
VARIABLES
    _models,       \* ModelService._models: resident model name -> published entry
    _last_update,  \* ModelService._last_update: None until initialize() succeeds
    startup,       \* the startup event: "pending", "ok", "failed" or "skipped"
    running,       \* the requests whose coroutine the event loop is executing: at most one
    pc,            \* per request: position of its coroutine
    query,         \* per request: select_model's argument query
    carbon,        \* per request: select_model's argument carbon
    analysis,      \* per request: local analysis (model.py:255)
    carbon_tier,   \* per request: local carbon_tier (model.py:256)
    idx,           \* per request: position of the loop at model.py:275 in MODEL_ORDER
    loading,       \* per request: the model whose backend load it is executing, or None
    site,          \* per request: the call site of the _load_model call in progress
    result,        \* per request: the value select_model returned, or None
    calls,         \* per request: the _load_model calls of the current select_model call
    startedMeanwhile, \* per request: models whose load another request started while it was in flight
    reading1,      \* _get_carbon_tier applied alone: a first reading
    reading2,      \*   a second reading
    tier1,         \*   the tier returned for reading1, or None
    tier2,         \*   the tier returned for reading2, or None
    text,          \* _analyze_query applied alone: its argument
    profile,       \*   how the call ended and the dict it returned
    ask_pc,        \* ask_query: position of the handler of the request being served
    requested,     \* ask_query: query.model, "auto" or a model name
    ask_model_name, \* ask_query: local model_name (main.py:132-137)
    gen_model,     \* generate_response: local model_name (model.py:305-318)
    gen_loads,     \* generate_response: its _load_model calls, in order
    attempts,      \* generate_response: the generations run (model.py:319-447), in order
    raised,        \* ask_query: the exception raised in the inner try block, or None
    response,      \* ask_query: what the client received
    request_history, \* RoutingService.request_history
    rpc,           \* per caller of RoutingService.select_model: position of its coroutine
    rargs,         \* per caller: the arguments of its select_model call
    reply,         \* what the last completed RoutingService operation returned or raised
    clock,         \* datetime.now(): position of the present in Instants
    carbon_last_update, \* CarbonService._last_update, NoUpdate for None
    _last_value,   \* CarbonService._last_value
    _error_count,  \* CarbonService._error_count
    cpc,           \* per request: position of its get_carbon_intensity coroutine
    cnow,          \* per request: local now of its call (carbon.py:97)
    cseen,         \* per request: newest_fetch as it was when its call began
    newest_fetch,  \* the latest clock reading of a call whose fetch succeeded, or NoUpdate
    carbon_data    \* what the last completed get_carbon_intensity call returned

classifierVars ==
    <<reading1, reading2, tier1, tier2>>

analyzerVars ==
    <<text, profile>>

askVars ==
    <<ask_pc, requested, ask_model_name, gen_model, gen_loads, attempts, raised,
      response>>

ledgerVars ==
    <<request_history, rpc, rargs, reply>>

carbonVars ==
    <<clock, carbon_last_update, _last_value, _error_count, cpc, cnow, cseen,
      newest_fetch, carbon_data>>

\* the state select_model does not touch
outsideSelect ==
    <<classifierVars, analyzerVars, askVars, ledgerVars, carbonVars>>

vars ==
    <<_models, _last_update, startup, running, pc, query, carbon, analysis,
      carbon_tier, idx, loading, site, result, calls, startedMeanwhile,
      classifierVars, analyzerVars, askVars, ledgerVars, carbonVars>>

NoAnalysis ==
    [is_complex |-> FALSE, is_code |-> FALSE, code_score |-> <<0, 0>>,
     task_type |-> None, task_scores |-> <<>>, word_count |-> 0]

\* the instants, in seconds, at which the clock is read
Instants ==
    <<0, 5, 299, 300, 3599, 3600, 3605>>

\* carbon.py:35: self._last_update = None
NoUpdate == -1

DEFAULT_CARBON_INTENSITY == 300

CACHE_DURATION == 300

\* carbon.py:169: the age in seconds below which a failed fetch is answered from the cache
FALLBACK_AGE == 3600

\* carbon.py:123: timeout=10, the seconds the request to the API may take in all
FetchTimeout == 10

\* most failed fetches in a row
MaxErrors == 2

\* values of int(data.get("carbonIntensity", ...)) (carbon.py:135)
FetchedIntensities ==
    {80, 520}

NoCarbonData ==
    [caller |-> 0, status |-> None, carbon_intensity |-> 0, now |-> 0,
     requested |-> FALSE, seen |-> NoUpdate]

\* carbon.py:33-39
CarbonInit ==
    /\ clock = 1
    /\ carbon_last_update = NoUpdate
    /\ _last_value = DEFAULT_CARBON_INTENSITY
    /\ _error_count = 0
    /\ cpc = [r \in Requests |-> "idle"]
    /\ cnow = [r \in Requests |-> 0]
    /\ cseen = [r \in Requests |-> NoUpdate]
    /\ newest_fetch = NoUpdate
    /\ carbon_data = NoCarbonData

\* no call of _get_carbon_tier alone
ClassifierIdle ==
    /\ reading1 = 0
    /\ reading2 = 0
    /\ tier1 = None
    /\ tier2 = None

NoProfile ==
    [raised |-> FALSE, returned |-> FALSE, value |-> NoAnalysis]

\* no call of _analyze_query alone
AnalyzerIdle ==
    /\ text = <<>>
    /\ profile = NoProfile

NoResponse ==
    [status |-> 0, model |-> None]

NumCallers == 2

\* the concurrent callers of RoutingService.select_model
Callers ==
    1..NumCallers

NoArgs ==
    [task_complexity |-> 0, performance_threshold |-> 0]

NoReply ==
    [op |-> None]

\* RoutingService.__init__ (routing.py:33-36)
RoutingInit ==
    /\ request_history = <<>>
    /\ rpc = [c \in Callers |-> "idle"]
    /\ rargs = [c \in Callers |-> NoArgs]
    /\ reply = NoReply

\* no request in ask_query
AskIdle ==
    /\ ask_pc = "idle"
    /\ requested = None
    /\ ask_model_name = None
    /\ gen_model = None
    /\ gen_loads = <<>>
    /\ attempts = <<>>
    /\ raised = None
    /\ response = NoResponse

\* ModelService.__init__ (model.py:88-93), at import of main.py (main.py:22)
ServiceInit ==
    /\ _models = <<>>
    /\ _last_update = None
    /\ startup = "pending"
    /\ running = {}
    /\ pc = [r \in Requests |-> "idle"]
    /\ query = [r \in Requests |-> <<>>]
    /\ carbon = [r \in Requests |-> 0]
    /\ analysis = [r \in Requests |-> NoAnalysis]
    /\ carbon_tier = [r \in Requests |-> None]
    /\ idx = [r \in Requests |-> 0]
    /\ loading = [r \in Requests |-> None]
    /\ site = [r \in Requests |-> None]
    /\ result = [r \in Requests |-> None]
    /\ calls = [r \in Requests |-> <<>>]
    /\ startedMeanwhile = [r \in Requests |-> {}]

Init ==
    /\ ServiceInit
    /\ ClassifierIdle
    /\ AnalyzerIdle
    /\ AskIdle
    /\ RoutingInit
    /\ CarbonInit

\* ------------------------------------------------------------------------
\* ModelService.initialize (model.py:95-111), run by the startup event
\* ------------------------------------------------------------------------
\* the entry a successful load publishes: the keys of the dict literal and the
\* serial number of the handle
Entry(name, models) ==
    [ keys   |-> IF name = "gpt2" THEN {"model", "tokenizer"} ELSE {"model"},
      handle |-> Cardinality(DOMAIN models) + 1 ]

Initialize ==
    /\ startup = "pending"
    /\ running = {}
    /\ \E loaded \in BOOLEAN :
          IF loaded
          THEN /\ _models' = ("tinyllama" :> Entry("tinyllama", _models)) @@ _models
               /\ _last_update' = "now"
               /\ startup' = "ok"
          ELSE \* Llama(...) raised: logged and re-raised, the application does not start
               /\ startup' = "failed"
               /\ UNCHANGED <<_models, _last_update>>
    /\ UNCHANGED <<running, pc, query, carbon, analysis, carbon_tier, idx,
                   loading, site, result, calls, startedMeanwhile>>
    /\ UNCHANGED outsideSelect

\* the app is served without its startup event: TestClient(app) outside a
\* `with` block (tests/test_api.py:9) never runs main.py:31-34
ServeWithoutStartup ==
    /\ startup = "pending"
    /\ startup' = "skipped"
    /\ UNCHANGED <<_models, _last_update, running, pc, query, carbon, analysis,
                   carbon_tier, idx, loading, site, result, calls,
                   startedMeanwhile>>
    /\ UNCHANGED outsideSelect

\* ------------------------------------------------------------------------
\* ModelService._load_model (model.py:113-172)
\* ------------------------------------------------------------------------
\* the resident check dropped: every call loads
AlreadyLoadedNever(name, models) ==
    FALSE

\* model.py:127
AlreadyLoaded(name, models) ==
    name \in DOMAIN models

\* model.py:127-165 up to the backend call: "resident" returns True at once
\* (128), "missing_file" (145-147) and "unknown_model" (163-165) return False
\* at once, "backend" means the blocking constructor call is made
Precheck(name, models, file_exists) ==
    IF AlreadyLoaded(name, models) THEN "resident"
    ELSE IF name = "gpt2" THEN "backend"
    ELSE IF name = "codellama"
         THEN IF file_exists THEN "backend" ELSE "missing_file"
    ELSE "unknown_model"

\* what the backend call can do: gpt2 builds the model, then the tokenizer
\* (model.py:136-139); codellama builds one Llama (model.py:152-159)
BackendOutcomes(name) ==
    IF name = "gpt2"
    THEN {"ok", "model_error", "tokenizer_error", "timeout"}
    ELSE {"ok", "model_error", "timeout"}

\* the entry stored key by key: the model is published before the tokenizer
\* is built
PublishPartial(name, models, outcome) ==
    IF outcome = "ok"
    THEN (name :> Entry(name, models)) @@ models
    ELSE IF name = "gpt2" /\ outcome \in {"tokenizer_error", "timeout"}
    THEN (name :> [Entry(name, models) EXCEPT !.keys = {"model"}]) @@ models
    ELSE models

\* model.py:136-139, 152-159: the assignment self._models[name] = {...}
\* happens only after the whole dict literal has been evaluated
Publish(name, models, outcome) ==
    IF outcome = "ok"
    THEN (name :> Entry(name, models)) @@ models
    ELSE models

\* the re-raised TimeoutError leaves _load_model
AbsorbAllButTimeout(outcome) ==
    IF outcome = "ok" THEN "True"
    ELSE IF outcome = "timeout" THEN "raise"
    ELSE "False"

\* model.py:140-142, 160-162, 167-172: the value _load_model returns after
\* the backend call; every exception of the body, the re-raised TimeoutError
\* included, ends in "return False"
Absorb(outcome) ==
    IF outcome = "ok" THEN "True" ELSE "False"

\* Whether the coroutine yields the event loop during the backend call: the
\* constructors at model.py:137-138 and 153-158 are plain blocking calls and
\* async_timeout's __aenter__/__aexit__ do not suspend.
LoadYields ==
    FALSE

\* ------------------------------------------------------------------------
\* ModelService.select_model (model.py:243-282)
\* ------------------------------------------------------------------------
\* rule 1 without its carbon gate
Rule1AppliesAnyTier(a, tier) ==
    a.is_code

\* model.py:263
Rule1Applies(a, tier) ==
    a.is_code /\ tier # "high"

\* rule 2 without its carbon gate
Rule2AppliesAnyTier(a, tier) ==
    a.is_complex

\* model.py:271
Rule2Applies(a, tier) ==
    tier # "high" /\ a.is_complex

\* one _load_model call: its argument, how it ended, whether it returned True,
\* whether it made the backend call and whether the model was resident
CallRecord(name, outcome, resident) ==
    [ model    |-> name,
      outcome  |-> outcome,
      ok       |-> outcome \in {"resident", "ok"},
      backend  |-> outcome \in BackendOutcomes(name),
      resident |-> resident ]

\* select_model returns name to its caller
Return(r, name) ==
    /\ pc' = [pc EXCEPT ![r] = "returned"]
    /\ result' = [result EXCEPT ![r] = name]
    /\ UNCHANGED idx

\* the _load_model call made at `from` ("rule1": model.py:265, "loop":
\* model.py:276) has returned v or raised
Resume(r, from, name, v) ==
    IF v = "raise"
    THEN /\ pc' = [pc EXCEPT ![r] = "raised"]
         /\ UNCHANGED <<result, idx>>
    ELSE IF v = "True"
    THEN Return(r, name)
    ELSE IF from = "rule1"
    THEN /\ pc' = [pc EXCEPT ![r] = "rule2"]
         /\ UNCHANGED <<result, idx>>
    ELSE /\ pc' = [pc EXCEPT ![r] = "loop"]
         /\ idx' = [idx EXCEPT ![r] = @ + 1]
         /\ UNCHANGED result

\* await self._load_model(name) up to its return or its backend call
CallLoad(r, from, name) ==
    \E file_exists \in BOOLEAN :
        LET pre == Precheck(name, _models, file_exists)
        IN  IF pre = "backend"
            THEN /\ pc' = [pc EXCEPT ![r] = "loading"]
                 /\ loading' = [loading EXCEPT ![r] = name]
                 /\ site' = [site EXCEPT ![r] = from]
                 /\ running' = IF LoadYields THEN {} ELSE {r}
                 /\ startedMeanwhile' =
                        [q \in Requests |->
                            IF q # r /\ pc[q] # "idle"
                            THEN startedMeanwhile[q] \cup {name}
                            ELSE startedMeanwhile[q]]
                 /\ UNCHANGED <<result, idx, calls>>
            ELSE /\ calls' = [calls EXCEPT ![r] =
                        Append(@, CallRecord(name, pre, name \in DOMAIN _models))]
                 /\ Resume(r, from, name,
                           IF pre = "resident" THEN "True" ELSE "False")
                 /\ UNCHANGED <<loading, site, running, startedMeanwhile>>

\* a request is accepted: its coroutine exists and waits for the event loop
\* (main.py:113-126)
Arrive(r) ==
    /\ startup \in {"ok", "skipped"}
    /\ pc[r] = "idle"
    /\ pc' = [pc EXCEPT ![r] = "pending"]
    /\ UNCHANGED <<_models, _last_update, startup, running, query, carbon,
                   analysis, carbon_tier, idx, loading, site, result, calls,
                   startedMeanwhile>>
    /\ UNCHANGED outsideSelect

\* model.py:254-256: select_model(query, carbon) is entered
SelectModel(r, q, c) ==
    /\ running = {}
    /\ pc[r] = "pending"
    /\ running' = {r}
    /\ query' = [query EXCEPT ![r] = q]
    /\ carbon' = [carbon EXCEPT ![r] = c]
    /\ analysis' = [analysis EXCEPT ![r] = _analyze_query(q)]
    /\ carbon_tier' = [carbon_tier EXCEPT ![r] = _get_carbon_tier(c)]
    /\ pc' = [pc EXCEPT ![r] = "rule1"]
    /\ UNCHANGED <<_models, _last_update, startup, idx, loading, site, result,
                   calls, startedMeanwhile>>
    /\ UNCHANGED outsideSelect

\* model.py:262-268
Rule1(r) ==
    /\ running = {r}
    /\ pc[r] = "rule1"
    /\ IF Rule1Applies(analysis[r], carbon_tier[r])
       THEN CallLoad(r, "rule1", "codellama")
       ELSE /\ pc' = [pc EXCEPT ![r] = "rule2"]
            /\ UNCHANGED <<running, idx, loading, site, result, calls,
                           startedMeanwhile>>
    /\ UNCHANGED <<_models, _last_update, startup, query, carbon, analysis,
                   carbon_tier>>
    /\ UNCHANGED outsideSelect

\* model.py:270-272
Rule2(r) ==
    /\ running = {r}
    /\ pc[r] = "rule2"
    /\ IF Rule2Applies(analysis[r], carbon_tier[r])
       THEN /\ pc' = [pc EXCEPT ![r] = "loop"]
            /\ idx' = [idx EXCEPT ![r] = 1]
       ELSE /\ pc' = [pc EXCEPT ![r] = "default"]
            /\ UNCHANGED idx
    /\ UNCHANGED <<_models, _last_update, startup, running, query, carbon,
                   analysis, carbon_tier, loading, site, result, calls,
                   startedMeanwhile>>
    /\ UNCHANGED outsideSelect

\* model.py:275-278: one iteration of the loop over MODEL_INFO.items()
Loop(r) ==
    /\ running = {r}
    /\ pc[r] = "loop"
    /\ IF idx[r] > Len(MODEL_ORDER)
       THEN /\ pc' = [pc EXCEPT ![r] = "default"]
            /\ UNCHANGED <<running, idx, loading, site, result, calls,
                           startedMeanwhile>>
       ELSE LET model_name == MODEL_ORDER[idx[r]]
            IN  IF analysis[r].task_type \notin MODEL_INFO[model_name].capabilities
                THEN /\ idx' = [idx EXCEPT ![r] = @ + 1]
                     /\ UNCHANGED <<running, pc, loading, site, result, calls,
                                    startedMeanwhile>>
                ELSE IF model_name \in DOMAIN _models
                THEN /\ Return(r, model_name)
                     /\ UNCHANGED <<running, loading, site, calls, startedMeanwhile>>
                ELSE CallLoad(r, "loop", model_name)
    /\ UNCHANGED <<_models, _last_update, startup, query, carbon, analysis,
                   carbon_tier>>
    /\ UNCHANGED outsideSelect

\* the backend call of _load_model ends (model.py:135-142, 151-162, 167-172)
LoadBackend(r) ==
    /\ pc[r] = "loading"
    /\ running \subseteq {r}
    /\ \E outcome \in BackendOutcomes(loading[r]) :
          /\ _models' = Publish(loading[r], _models, outcome)
          /\ calls' = [calls EXCEPT ![r] =
                Append(@, CallRecord(loading[r], outcome,
                                     loading[r] \in DOMAIN _models))]
          /\ Resume(r, site[r], loading[r], Absorb(outcome))
    /\ running' = {r}
    /\ loading' = [loading EXCEPT ![r] = None]
    /\ site' = [site EXCEPT ![r] = None]
    /\ UNCHANGED <<_last_update, startup, query, carbon, analysis, carbon_tier,
                   startedMeanwhile>>
    /\ UNCHANGED outsideSelect

\* model.py:280-282
Default(r) ==
    /\ running = {r}
    /\ pc[r] = "default"
    /\ Return(r, BASELINE)
    /\ UNCHANGED <<_models, _last_update, startup, running, query, carbon,
                   analysis, carbon_tier, loading, site, calls, startedMeanwhile>>
    /\ UNCHANGED outsideSelect

\* the caller has taken the outcome of the call (main.py:132-137); the
\* request's locals are dropped
Done(r) ==
    /\ running = {r}
    /\ pc[r] \in {"returned", "raised"}
    /\ running' = {}
    /\ pc' = [pc EXCEPT ![r] = "idle"]
    /\ query' = [query EXCEPT ![r] = <<>>]
    /\ carbon' = [carbon EXCEPT ![r] = 0]
    /\ analysis' = [analysis EXCEPT ![r] = NoAnalysis]
    /\ carbon_tier' = [carbon_tier EXCEPT ![r] = None]
    /\ idx' = [idx EXCEPT ![r] = 0]
    /\ result' = [result EXCEPT ![r] = None]
    /\ calls' = [calls EXCEPT ![r] = <<>>]
    /\ startedMeanwhile' = [startedMeanwhile EXCEPT ![r] = {}]
    /\ UNCHANGED <<_models, _last_update, startup, loading, site>>
    /\ UNCHANGED outsideSelect

Next ==
    \/ Initialize
    \/ ServeWithoutStartup
    \/ \E r \in Requests : Arrive(r)
    \/ \E r \in Requests : \E q \in Queries : \E c \in Readings : SelectModel(r, q, c)
    \/ \E r \in Requests : Rule1(r)
    \/ \E r \in Requests : Rule2(r)
    \/ \E r \in Requests : Loop(r)
    \/ \E r \in Requests : LoadBackend(r)
    \/ \E r \in Requests : Default(r)
    \/ \E r \in Requests : Done(r)

Spec ==
    Init /\ [][Next]_vars

\* ------------------------------------------------------------------------
\* Properties of select_model
\* ------------------------------------------------------------------------
\* the request is inside a select_model call or has just left it
InCall(r) ==
    pc[r] \notin {"idle", "pending"}

\* the models _load_model was called for, in call order, in the current call
LoadsOf(r, name) ==
    { i \in 1..Len(calls[r]) : calls[r][i].model = name }

\* C1: in a select_model call whose carbon reading is >= 300 (tier high),
\* _load_model("codellama") is never invoked, whatever the query.
C1_NoCodellamaLoadAtHighCarbon ==
    \A r \in Requests :
        (InCall(r) /\ carbon[r] >= 300) =>
            /\ loading[r] # "codellama"
            /\ LoadsOf(r, "codellama") = {}

\* a code query has been answered under a reading of tier high
C1_Witness ==
    \E r \in Requests :
        /\ pc[r] = "returned"
        /\ carbon[r] >= 300
        /\ analysis[r].is_code

\* C2: for a query classified as code under a reading < 300 (tier low or
\* medium), select_model calls _load_model("codellama"), and if codellama is
\* resident when the call returns (it was resident or its load succeeded) the
\* call returns "codellama".
C2_CodeQueryGetsCodellama ==
    \A r \in Requests :
        (pc[r] = "returned" /\ analysis[r].is_code /\ carbon[r] < 300) =>
            /\ LoadsOf(r, "codellama") # {}
            /\ ("codellama" \in DOMAIN _models => result[r] = "codellama")

\* "explain this python function" at reading 80 is a code query in tier low
\* and is answered with codellama
C2_Witness ==
    \E r \in Requests :
        /\ pc[r] = "returned"
        /\ query[r] = Q_explain_python
        /\ carbon[r] = 80
        /\ analysis[r].is_code
        /\ analysis[r].task_type = "code"
        /\ carbon_tier[r] = "low"
        /\ result[r] = "codellama"

\* C3 (as claimed): when rule 1 applies and its load of codellama fails, the
\* call invokes _load_model("codellama") exactly once and returns "tinyllama".
C3_CodellamaTriedOnce ==
    \A r \in Requests :
        ( /\ pc[r] = "returned"
          /\ analysis[r].is_code
          /\ carbon[r] < 300
          /\ Len(calls[r]) >= 1
          /\ calls[r][1].model = "codellama"
          /\ ~calls[r][1].ok ) =>
            /\ Cardinality(LoadsOf(r, "codellama")) = 1
            /\ result[r] = "tinyllama"

\* position of a model in the catalog order the claim names
C4_Position(name) ==
    CHOOSE i \in 1..3 : <<"tinyllama", "gpt2", "codellama">>[i] = name

\* C4: for a complex non-code query under a reading < 300, the call returns
\* the first model, in the order tinyllama, gpt2, codellama, that has the
\* task type among its capabilities and is resident when the call returns
\* (it was resident or its load succeeded); loads are attempted in that order
\* and only for models that have the capability.
C4_FirstCapableModelInCatalogOrder ==
    \A r \in Requests :
        (pc[r] = "returned" /\ ~analysis[r].is_code /\ analysis[r].is_complex
            /\ carbon[r] < 300) =>
            LET task_type == analysis[r].task_type
                Qualifies(m) == /\ task_type \in MODEL_INFO[m].capabilities
                                /\ m \in DOMAIN _models
                qualifying == { m \in {"tinyllama", "gpt2", "codellama"} : Qualifies(m) }
            IN  /\ \A i \in 1..Len(calls[r]) :
                      task_type \in MODEL_INFO[calls[r][i].model].capabilities
                /\ \A i, j \in 1..Len(calls[r]) :
                      i < j => C4_Position(calls[r][i].model) < C4_Position(calls[r][j].model)
                /\ \A m \in qualifying :
                      /\ result[r] \in qualifying
                      /\ C4_Position(result[r]) <= C4_Position(m)

\* an analysis query got gpt2 after its load, with codellama resident as well
C4_Witness ==
    \E r \in Requests :
        /\ pc[r] = "returned"
        /\ ~analysis[r].is_code
        /\ analysis[r].is_complex
        /\ analysis[r].task_type = "analysis"
        /\ carbon[r] < 300
        /\ result[r] = "gpt2"
        /\ LoadsOf(r, "gpt2") # {}
        /\ "codellama" \in DOMAIN _models

\* C5: a call with a reading >= 300 returns "tinyllama" whatever the query,
\* and so does a call, under any reading, for a query that is neither code nor
\* complex.
C5_BaselineAtHighCarbonOrSimpleQuery ==
    \A r \in Requests :
        ( /\ pc[r] = "returned"
          /\ \/ carbon[r] >= 300
             \/ (~analysis[r].is_code /\ ~analysis[r].is_complex) ) =>
            result[r] = "tinyllama"

\* a complex query was answered under tier high while a larger model that can
\* serve it was resident
C5_Witness ==
    \E r \in Requests :
        /\ pc[r] = "returned"
        /\ carbon[r] = 520
        /\ analysis[r].is_complex
        /\ \E m \in DOMAIN _models :
              m # "tinyllama" /\ analysis[r].task_type \in MODEL_INFO[m].capabilities
        /\ result[r] = "tinyllama"

\* every _load_model call of the current call returned False
AllLoadsFailed(r) ==
    /\ calls[r] # <<>>
    /\ \A i \in 1..Len(calls[r]) : ~calls[r][i].ok

BackendLoadsOf(r, name) ==
    { i \in LoadsOf(r, name) : calls[r][i].backend }

\* C7: of the requests in flight together that ask for the same non-resident
\* model only one starts a backend load of it: a request that was in flight
\* when another request started the load starts none itself.
C7_OneLoadPerConcurrentRequests ==
    \A r \in Requests : \A m \in startedMeanwhile[r] :
        /\ loading[r] # m
        /\ BackendLoadsOf(r, m) = {}

\* the keys a complete entry of _models holds (model.py:100-106, 136-139, 152-159)
CompleteKeys(name) ==
    IF name = "gpt2" THEN {"model", "tokenizer"} ELSE {"model"}

\* C8: a _load_model call that returns False (failure, timeout, missing file)
\* leaves _models unchanged and its model non-resident, no entry of _models is
\* ever partial, and a later _load_model call for that model is not answered
\* from the resident set: it makes a fresh attempt.
C8_FailedLoadPublishesNothing ==
    /\ [](\A m \in DOMAIN _models : _models[m].keys = CompleteKeys(m))
    /\ [][\A r \in Requests :
            ( /\ Len(calls'[r]) = Len(calls[r]) + 1
              /\ ~calls'[r][Len(calls'[r])].ok ) =>
                /\ _models' = _models
                /\ calls'[r][Len(calls'[r])].model \notin DOMAIN _models']_vars
    /\ [](\A r \in Requests : \A i, j \in 1..Len(calls[r]) :
            ( /\ i < j
              /\ calls[r][i].model = calls[r][j].model
              /\ ~calls[r][i].ok ) => ~calls[r][j].resident)

\* a load that timed out was followed by a load of the same model that succeeded
C8_Witness ==
    \E r \in Requests : \E i, j \in 1..Len(calls[r]) :
        /\ i < j
        /\ calls[r][i].model = calls[r][j].model
        /\ calls[r][i].outcome = "timeout"
        /\ calls[r][j].outcome = "ok"
        /\ calls[r][j].model \in DOMAIN _models

\* C9: an entry of _models is never removed or replaced, and a _load_model
\* call for a resident model returns True without making the backend call.
C9_ResidencyPermanentAndFree ==
    /\ [][\A m \in DOMAIN _models :
            m \in DOMAIN _models' /\ _models'[m] = _models[m]]_vars
    /\ [](\A r \in Requests : \A i \in 1..Len(calls[r]) :
            calls[r][i].resident => (calls[r][i].ok /\ ~calls[r][i].backend))

\* _load_model was called for a model loaded by an earlier request
C9_Witness ==
    \E r \in Requests : \E i \in 1..Len(calls[r]) :
        /\ calls[r][i].resident
        /\ calls[r][i].ok
        /\ calls[r][i].model \in DOMAIN _models
        /\ calls[r][i].model # "tinyllama"

\* C10: once the startup event has succeeded, the id select_model returns is a
\* key of MODEL_INFO and is resident when the call returns.
C10_ReturnedModelIsResident ==
    \A r \in Requests :
        (pc[r] = "returned" /\ startup = "ok") =>
            /\ result[r] \in {"tinyllama", "gpt2", "codellama"}
            /\ result[r] \in DOMAIN MODEL_INFO
            /\ result[r] \in DOMAIN _models

\* after a successful startup a call fell back to the baseline after failed
\* loads
C10_Witness ==
    \E r \in Requests :
        /\ pc[r] = "returned"
        /\ startup = "ok"
        /\ AllLoadsFailed(r)
        /\ result[r] = "tinyllama"
        /\ "tinyllama" \in DOMAIN _models

\* ------------------------------------------------------------------------
\* _get_carbon_tier applied alone to two readings
\* ------------------------------------------------------------------------
\* readings range from MaxNegative below zero to MaxReading
MaxNegative == 5
MaxReading == 305

ClassifierReadings ==
    (0 - MaxNegative)..MaxReading

ClassifierInit ==
    /\ ServiceInit
    /\ AnalyzerIdle
    /\ AskIdle
    /\ RoutingInit
    /\ CarbonInit
    /\ reading1 \in ClassifierReadings
    /\ reading2 \in ClassifierReadings
    /\ tier1 = None
    /\ tier2 = None

\* self._get_carbon_tier(reading1), self._get_carbon_tier(reading2)
Classify ==
    /\ tier1 = None
    /\ tier1' = _get_carbon_tier(reading1)
    /\ tier2' = _get_carbon_tier(reading2)
    /\ UNCHANGED <<reading1, reading2, analyzerVars, askVars, ledgerVars, carbonVars>>
    /\ UNCHANGED <<_models, _last_update, startup, running, pc, query, carbon,
                   analysis, carbon_tier, idx, loading, site, result, calls,
                   startedMeanwhile>>

ClassifierNext ==
    Classify

ClassifierSpec ==
    ClassifierInit /\ [][ClassifierNext]_vars

\* C11: _get_carbon_tier returns a tier for every reading, negative ones
\* included: low iff the reading is < 100, medium iff 100 <= reading < 300,
\* high iff the reading is >= 300; 99 gives low, 100 medium, 299 medium and
\* 300 high.
C11_ExactThresholds ==
    tier1 # None =>
        /\ tier1 \in {"low", "medium", "high"}
        /\ tier1 = "low" <=> reading1 < 100
        /\ tier1 = "medium" <=> (100 <= reading1 /\ reading1 < 300)
        /\ tier1 = "high" <=> reading1 >= 300
        /\ reading1 = 99 => tier1 = "low"
        /\ reading1 = 100 => tier1 = "medium"
        /\ reading1 = 299 => tier1 = "medium"
        /\ reading1 = 300 => tier1 = "high"

\* a negative reading and the reading 300 have been classified
C11_Witness ==
    /\ reading1 < 0
    /\ tier1 = "low"
    /\ reading2 = 300
    /\ tier2 = "high"

\* the order low < medium < high
C12_Rank(tier) ==
    CASE tier = "low" -> 1
      [] tier = "medium" -> 2
      [] tier = "high" -> 3

\* C12: _get_carbon_tier is monotonic: for readings r1 <= r2 the tier of r1
\* is at most the tier of r2 in the order low < medium < high.
C12_Monotonic ==
    (tier1 # None /\ tier2 # None /\ reading1 <= reading2) =>
        C12_Rank(tier1) <= C12_Rank(tier2)

\* two readings one apart on either side of the upper threshold
C12_Witness ==
    /\ reading1 = 299
    /\ reading2 = 300
    /\ tier1 = "medium"
    /\ tier2 = "high"

\* ------------------------------------------------------------------------
\* _analyze_query applied alone to one text
\* ------------------------------------------------------------------------
W_python ==
    <<"p","y","t","h","o","n">>

W_Go ==
    <<"G","o">>

W_cpp ==
    <<"c","+","+">>

W_python_q ==
    <<"p","y","t","h","o","n","?">>

W_good ==
    <<"g","o","o","d">>

W_hello ==
    <<"h","e","l","l","o">>

W_what ==
    <<"w","h","a","t">>

W_why ==
    <<"w","h","y">>

W_define ==
    <<"d","e","f","i","n","e">>

W_general ==
    <<"g","e","n","e","r","a","l">>

W_explain ==
    <<"e","x","p","l","a","i","n">>

AnalyzerWords ==
    {W_python, W_Go, W_cpp, W_python_q, W_good, W_hello, W_what, W_why, W_define, W_general, W_explain}

T_blank ==
    <<" ">>

T_blanks ==
    <<" ","\t","\n"," ">>

MaxWords == 3

\* ws[1] + " " + ws[2] + ...
RECURSIVE Join(_)
Join(ws) ==
    IF Len(ws) = 0 THEN <<>>
    ELSE IF Len(ws) = 1 THEN ws[1]
    ELSE ws[1] \o <<" ">> \o Join(Tail(ws))

\* the texts of one to MaxWords words, the texts without a word, and the
\* queries given to select_model
AnalyzerTexts ==
    { Join(ws) : ws \in UNION { [1..n -> AnalyzerWords] : n \in 1..MaxWords } }
        \cup {Q_empty, T_blank, T_blanks}
        \cup Queries

AnalyzerInit ==
    /\ ServiceInit
    /\ ClassifierIdle
    /\ AskIdle
    /\ RoutingInit
    /\ CarbonInit
    /\ text \in AnalyzerTexts
    /\ profile = NoProfile

\* self._analyze_query(text)
Analyze ==
    /\ profile = NoProfile
    /\ profile' =
          IF _analyze_query_raises(text)
          THEN [raised |-> TRUE, returned |-> FALSE, value |-> NoAnalysis]
          ELSE [raised |-> FALSE, returned |-> TRUE, value |-> _analyze_query(text)]
    /\ UNCHANGED <<text, classifierVars, askVars, ledgerVars, carbonVars>>
    /\ UNCHANGED <<_models, _last_update, startup, running, pc, query, carbon,
                   analysis, carbon_tier, idx, loading, site, result, calls,
                   startedMeanwhile>>

AnalyzerNext ==
    Analyze

AnalyzerSpec ==
    AnalyzerInit /\ [][AnalyzerNext]_vars

\* the language names the claim lists
C13_LanguageNames ==
    {<<"p","y","t","h","o","n">>,
     <<"j","a","v","a","s","c","r","i","p","t">>,
     <<"t","y","p","e","s","c","r","i","p","t">>,
     <<"j","a","v","a">>,
     <<"c","+","+">>,
     <<"c","p","p">>,
     <<"r","u","s","t">>,
     <<"g","o">>,
     <<"h","t","m","l">>,
     <<"c","s","s">>,
     <<"s","q","l">>,
     <<"p","h","p">>,
     <<"s","w","i","f","t">>,
     <<"k","o","t","l","i","n">>}

C13_IsWordChar(c) ==
    c \in { LOWER[i] : i \in 1..Len(LOWER) } \cup { UPPER[i] : i \in 1..Len(UPPER) }
        \cup {"0","1","2","3","4","5","6","7","8","9","_"}

\* kw occurs in s, whatever the case, and is not part of a longer word
C13_Mentions(kw, s) ==
    \E i \in 1..(Len(s) - Len(kw) + 1) :
        /\ SubSeq(Lower(s), i, i + Len(kw) - 1) = kw
        /\ (i = 1 \/ ~C13_IsWordChar(s[i - 1]))
        /\ (i + Len(kw) - 1 = Len(s) \/ ~C13_IsWordChar(s[i + Len(kw)]))

\* C13 (as claimed): for every query that contains one of the language names,
\* whatever else it contains, _analyze_query reports the task type code and
\* is_complex true.
C13_LanguageNameForcesCode ==
    (profile # NoProfile /\ \E kw \in C13_LanguageNames : C13_Mentions(kw, text)) =>
        /\ profile.returned
        /\ profile.value.task_type = "code"
        /\ profile.value.is_complex

\* C13 (amended): for every query in which one of the language names is a
\* whole whitespace-delimited word (compared in lower case), _analyze_query
\* reports the task type code and is_complex true, overriding the scored task
\* type and the computed complexity.
C13_LanguageWordForcesCode ==
    (profile # NoProfile /\ SplitWords(Lower(text)) \cap C13_LanguageNames # {}) =>
        /\ profile.returned
        /\ profile.value.is_code
        /\ profile.value.task_type = "code"
        /\ profile.value.is_complex

\* a query with a language name in capitals, no complexity keyword and a
\* higher score for another task type was typed code and complex
C13_Witness ==
    /\ profile.returned
    /\ W_Go \in SplitWords(text)
    /\ SplitWords(Lower(text)) \cap COMPLEX_KEYWORDS = {}
    /\ profile.value.task_scores["general"] > profile.value.task_scores["code"]
    /\ profile.value.task_type = "code"
    /\ profile.value.is_complex

\* C14: _analyze_query raises for no input, and for the empty string and for
\* a text of blanks only it returns word_count 0, is_code false, is_complex
\* false and the task type general.
C14_NeverFails ==
    /\ ~profile.raised
    /\ (profile # NoProfile /\ \A i \in 1..Len(text) : IsSpace(text[i])) =>
          /\ profile.returned
          /\ profile.value.word_count = 0
          /\ ~profile.value.is_code
          /\ ~profile.value.is_complex
          /\ profile.value.task_type = "general"

\* a text of blanks, tab and newline has been analyzed
C14_Witness ==
    /\ text = T_blanks
    /\ profile.returned
    /\ profile.value.word_count = 0

\* the first category of order with the maximal score
C15_FirstMaxIn(order, scores) ==
    order[CHOOSE i \in 1..Len(order) :
            /\ \A j \in 1..Len(order) : scores[order[j]] <= scores[order[i]]
            /\ \A j \in 1..(i - 1) : scores[order[j]] < scores[order[i]]]

\* C15 (as claimed): for a non-code query the task type is the category with
\* the highest score, the first one in the order general, qa, analysis, code
\* when several have it.
C15_TieBreakGeneralQaAnalysisCode ==
    (profile.returned /\ ~profile.value.is_code) =>
        profile.value.task_type =
            C15_FirstMaxIn(<<"general", "qa", "analysis", "code">>,
                           profile.value.task_scores)

\* C15 (amended): for a non-code query the task type is the category with
\* the highest score, the first one in the order general, analysis, code, qa
\* when several have it; a query matching nothing is typed general.
C15_TieBreakGeneralAnalysisCodeQa ==
    (profile.returned /\ ~profile.value.is_code) =>
        /\ profile.value.task_type =
              C15_FirstMaxIn(<<"general", "analysis", "code", "qa">>,
                             profile.value.task_scores)
        /\ (\A t \in DOMAIN profile.value.task_scores :
                profile.value.task_scores[t] = 0) => profile.value.task_type = "general"

\* "define why" scores 1 for qa and 1 for analysis and was typed analysis
C15_Witness ==
    /\ text = Join(<<W_define, W_why>>)
    /\ profile.returned
    /\ ~profile.value.is_code
    /\ profile.value.task_scores["qa"] = 1
    /\ profile.value.task_scores["analysis"] = 1
    /\ profile.value.task_scores["general"] = 0
    /\ profile.value.task_type = "analysis"

\* ------------------------------------------------------------------------
\* ask_query (main.py:113-173) serving one request at a time, with
\* ModelService.generate_response (model.py:284-447)
\* ------------------------------------------------------------------------
\* query.model of a request: "auto", a catalog name, or any other string
RequestedModels ==
    {"auto", "tinyllama", "gpt2", "codellama", "other"}

\* the request served by ask_query
Asker ==
    CHOOSE r \in Requests : \A q \in Requests : r <= q

\* the select_model locals of the request, as select_model leaves them behind
SelectLocalsDropped ==
    /\ pc' = [pc EXCEPT ![Asker] = "idle"]
    /\ query' = [query EXCEPT ![Asker] = <<>>]
    /\ carbon' = [carbon EXCEPT ![Asker] = 0]
    /\ analysis' = [analysis EXCEPT ![Asker] = NoAnalysis]
    /\ carbon_tier' = [carbon_tier EXCEPT ![Asker] = None]
    /\ idx' = [idx EXCEPT ![Asker] = 0]
    /\ result' = [result EXCEPT ![Asker] = None]
    /\ calls' = [calls EXCEPT ![Asker] = <<>>]
    /\ startedMeanwhile' = [startedMeanwhile EXCEPT ![Asker] = {}]

\* main.py:155-160: the inner handler turns AsyncTimeoutError into
\* HTTPException(504) and lets every other exception pass
InnerHandler(exc) ==
    IF exc = "AsyncTimeoutError" THEN "HTTPException504" ELSE exc

\* main.py:169-173: `except Exception` catches whatever left the inner block,
\* the HTTPException(504) included, and raises HTTPException(500)
OuterHandler(exc) ==
    500

\* the response of a request whose inner block raised exc
ErrorResponse(exc) ==
    [status |-> OuterHandler(InnerHandler(exc)), model |-> None]

\* a request with model 'auto' arrives: main.py:124-133 up to the call of
\* select_model
AskAuto ==
    /\ startup \in {"ok", "skipped"}
    /\ ask_pc \in {"idle", "responded"}
    /\ pc[Asker] = "idle"
    /\ ask_pc' = "selecting"
    /\ requested' = "auto"
    /\ pc' = [pc EXCEPT ![Asker] = "pending"]
    /\ ask_model_name' = None
    /\ gen_model' = None
    /\ gen_loads' = <<>>
    /\ attempts' = <<>>
    /\ raised' = None
    /\ response' = NoResponse
    /\ UNCHANGED <<_models, _last_update, startup, running, query, carbon,
                   analysis, carbon_tier, idx, loading, site, result, calls,
                   startedMeanwhile, classifierVars, analyzerVars, ledgerVars, carbonVars>>

\* a request naming its model arrives: main.py:124-137
AskManual(m) ==
    /\ startup \in {"ok", "skipped"}
    /\ ask_pc \in {"idle", "responded"}
    /\ pc[Asker] = "idle"
    /\ m # "auto"
    /\ ask_pc' = "generate"
    /\ requested' = m
    /\ ask_model_name' = m
    /\ gen_model' = None
    /\ gen_loads' = <<>>
    /\ attempts' = <<>>
    /\ raised' = None
    /\ response' = NoResponse
    /\ UNCHANGED <<_models, _last_update, startup, running, pc, query, carbon,
                   analysis, carbon_tier, idx, loading, site, result, calls,
                   startedMeanwhile, classifierVars, analyzerVars, ledgerVars, carbonVars>>

\* main.py:132-135, 155-160: wait_for hands over what select_model returned,
\* or raises AsyncTimeoutError when the 10 s have passed
AskSelected ==
    /\ ask_pc = "selecting"
    /\ running = {Asker}
    /\ pc[Asker] \in {"returned", "raised"}
    /\ \E timed_out \in BOOLEAN :
          IF timed_out \/ pc[Asker] = "raised"
          THEN LET exc == IF timed_out THEN "AsyncTimeoutError" ELSE "Exception"
               IN  /\ raised' = exc
                   /\ response' = ErrorResponse(exc)
                   /\ ask_pc' = "responded"
                   /\ UNCHANGED ask_model_name
          ELSE /\ ask_model_name' = result[Asker]
               /\ ask_pc' = "generate"
               /\ UNCHANGED <<raised, response>>
    /\ running' = {}
    /\ SelectLocalsDropped
    /\ UNCHANGED <<_models, _last_update, startup, loading, site, requested,
                   gen_model, gen_loads, attempts, classifierVars, analyzerVars,
                   ledgerVars, carbonVars>>

\* one whole _load_model(name) call (model.py:113-172): the models after it
\* and the value it returns, for each way the backend call can end
LoadModelResults(name, models) ==
    { [models |-> models, ok |-> pre = "resident"] :
        pre \in { Precheck(name, models, f) : f \in BOOLEAN } \ {"backend"} }
    \cup
    { [models |-> Publish(name, models, outcome), ok |-> Absorb(outcome) = "True"] :
        outcome \in { o \in BackendOutcomes(name) :
                        \E f \in BOOLEAN : Precheck(name, models, f) = "backend" } }

\* model.py:304-316: generate_response makes the requested model resident or
\* falls back to tinyllama
GenLoadRequested ==
    /\ ask_pc = "generate"
    /\ IF ask_model_name \in DOMAIN _models
       THEN /\ gen_model' = ask_model_name
            /\ ask_pc' = "infer"
            /\ UNCHANGED <<_models, gen_loads, raised, response>>
       ELSE \E res \in LoadModelResults(ask_model_name, _models) :
              /\ _models' = res.models
              /\ gen_loads' = Append(gen_loads, [model |-> ask_model_name, ok |-> res.ok])
              /\ IF res.ok
                 THEN /\ gen_model' = ask_model_name
                      /\ ask_pc' = "infer"
                      /\ UNCHANGED <<raised, response>>
                 ELSE IF ask_model_name # "tinyllama"
                 THEN /\ gen_model' = "tinyllama"
                      /\ ask_pc' = "load_fallback"
                      /\ UNCHANGED <<raised, response>>
                 ELSE /\ raised' = "RuntimeError"
                      /\ response' = ErrorResponse("RuntimeError")
                      /\ ask_pc' = "responded"
                      /\ UNCHANGED gen_model
    /\ UNCHANGED <<_last_update, startup, running, pc, query, carbon, analysis,
                   carbon_tier, idx, loading, site, result, calls,
                   startedMeanwhile, requested, ask_model_name, attempts,
                   classifierVars, analyzerVars, ledgerVars, carbonVars>>

\* model.py:312-314: the fallback's _load_model("tinyllama")
GenLoadFallback ==
    /\ ask_pc = "load_fallback"
    /\ \E res \in LoadModelResults("tinyllama", _models) :
          /\ _models' = res.models
          /\ gen_loads' = Append(gen_loads, [model |-> "tinyllama", ok |-> res.ok])
          /\ IF res.ok
             THEN /\ ask_pc' = "infer"
                  /\ UNCHANGED <<raised, response>>
             ELSE /\ raised' = "RuntimeError"
                  /\ response' = ErrorResponse("RuntimeError")
                  /\ ask_pc' = "responded"
    /\ UNCHANGED <<_last_update, startup, running, pc, query, carbon, analysis,
                   carbon_tier, idx, loading, site, result, calls,
                   startedMeanwhile, requested, ask_model_name, gen_model, attempts,
                   classifierVars, analyzerVars, ledgerVars, carbonVars>>

\* model.py:318-447 and main.py:146-167: the generation with gen_model ends;
\* its exception is logged and re-raised (model.py:445-447), otherwise
\* wait_for hands the text over or the 90 s have passed
GenInfer ==
    /\ ask_pc = "infer"
    /\ gen_model \in DOMAIN _models
    /\ \E generated \in BOOLEAN : \E timed_out \in BOOLEAN :
          /\ attempts' = Append(attempts, [model |-> gen_model, ok |-> generated])
          /\ IF ~generated \/ timed_out
             THEN LET exc == IF ~generated THEN "Exception" ELSE "AsyncTimeoutError"
                  IN  /\ raised' = exc
                      /\ response' = ErrorResponse(exc)
                      /\ ask_pc' = "responded"
             ELSE /\ response' = [status |-> 200, model |-> ask_model_name]
                  /\ ask_pc' = "responded"
                  /\ UNCHANGED raised
    /\ UNCHANGED <<_models, _last_update, startup, running, pc, query, carbon,
                   analysis, carbon_tier, idx, loading, site, result, calls,
                   startedMeanwhile, requested, ask_model_name, gen_model,
                   gen_loads, classifierVars, analyzerVars, ledgerVars, carbonVars>>

AskNext ==
    \/ Initialize
    \/ ServeWithoutStartup
    \/ AskAuto
    \/ \E m \in RequestedModels : AskManual(m)
    \/ \E q \in Queries : \E c \in Readings : SelectModel(Asker, q, c)
    \/ Rule1(Asker)
    \/ Rule2(Asker)
    \/ Loop(Asker)
    \/ LoadBackend(Asker)
    \/ Default(Asker)
    \/ AskSelected
    \/ GenLoadRequested
    \/ GenLoadFallback
    \/ GenInfer

AskSpec ==
    Init /\ [][AskNext]_vars

\* C16: when the generation with the chosen model, other than tinyllama,
\* fails, the generation is run once more, with tinyllama, and never a third
\* time.
C16_FailedGenerationRetriedOnceWithBaseline ==
    /\ Len(attempts) <= 2
    /\ ( /\ ask_pc = "responded"
         /\ attempts # <<>>
         /\ attempts[1].model # "tinyllama"
         /\ ~attempts[1].ok ) =>
            /\ Len(attempts) = 2
            /\ attempts[2].model = "tinyllama"
            /\ attempts[2].ok => response.status = 200 \/ raised = "AsyncTimeoutError"

\* C22: once ask_query, serving a request with model 'auto', holds the model
\* name that select_model returned, the request history holds a record of
\* that selection.  (ask_query and ModelService.select_model reach no
\* RoutingService: main.py builds only the carbon and the model service.)
C22_SelectionRecordedBeforeReturn ==
    ( /\ requested = "auto"
      /\ ask_pc \in {"generate", "load_fallback", "infer", "responded"}
      /\ ask_model_name # None ) =>
         Len(request_history) >= 1

\* C25: the "model" field of a successful response names the model that
\* generated the text, tinyllama when generate_response fell back to it.
C25_ResponseNamesGeneratingModel ==
    ( /\ ask_pc = "responded"
      /\ response.status = 200 ) =>
         /\ attempts # <<>>
         /\ response.model = attempts[Len(attempts)].model

\* C26: a request whose model selection or response generation ran past
\* its timeout ends with status 504.
C26_TimeoutAnswered504 ==
    ( /\ ask_pc = "responded"
      /\ raised = "AsyncTimeoutError" ) =>
         response.status = 504

\* ------------------------------------------------------------------------
\* RoutingService (routing.py:14-176) with injected collaborators.  Scores,
\* thresholds and savings are in hundredths (0.7 is 70).
\* ------------------------------------------------------------------------
\* most records the history holds
MaxHistory == 2

\* largest limit given to get_request_history, besides its default
MaxLimit == 2

DefaultLimit == 100

Limits ==
    0..MaxLimit \cup {DefaultLimit}

\* task_complexity arguments: inside and outside [0, 1]
TaskComplexities ==
    {50, 150}

\* performance_threshold arguments: the default 0.7, one only gpt2-medium
\* meets and one no model meets
PerformanceThresholds ==
    {70, 85, 95}

\* carbon_intensity["carbon_intensity"] values the carbon service returns
RoutingIntensities ==
    {50, 400}

\* model_service.get_available_models() (tests/test_routing.py:28-40)
AvailableModels ==
    << [model_id |-> "gpt2-small", carbon_footprint_per_inference |-> 10,
        performance_score |-> 80],
       [model_id |-> "gpt2-medium", carbon_footprint_per_inference |-> 20,
        performance_score |-> 90] >>

\* what optimization_service.recommend_strategy returns (optimization.py:127-136,
\* tests/test_routing.py:55-60) or that it raises ValueError (optimization.py:133-134)
Recommendations ==
    { [raised |-> TRUE, strategy_id |-> None, carbon_reduction |-> 0],
      [raised |-> FALSE, strategy_id |-> "quantization", carbon_reduction |-> 40],
      [raised |-> FALSE, strategy_id |-> "knowledge_distillation", carbon_reduction |-> 60] }

\* routing.py:62-85: one score entry per available model, in list order;
\* carbon_impact in 1/10000, score in 1/100000
ModelScores(intensity) ==
    [ i \in 1..Len(AvailableModels) |->
        LET model == AvailableModels[i]
            carbon_impact == model.carbon_footprint_per_inference * intensity
            performance_score == model.performance_score
        IN  [ model_id          |-> model.model_id,
              score             |-> (10000 - carbon_impact) * 6 + performance_score * 400,
              carbon_impact     |-> carbon_impact,
              performance_score |-> performance_score ] ]

\* the score list left in the order of the available models
SortByScore_unsorted(model_scores) ==
    model_scores

\* routing.py:88: list.sort(key=score, reverse=True), stable for equal scores
SortByScore(model_scores) ==
    LET n == Len(model_scores)
        perm == CHOOSE p \in [1..n -> 1..n] :
                  /\ \A i, j \in 1..n : i # j => p[i] # p[j]
                  /\ \A i, j \in 1..n : i < j =>
                        \/ model_scores[p[i]].score > model_scores[p[j]].score
                        \/ /\ model_scores[p[i]].score = model_scores[p[j]].score
                           /\ p[i] < p[j]
    IN  [ i \in 1..n |-> model_scores[perm[i]] ]

\* routing.py:91-95: position of the first entry that meets the threshold, 0 if none
FirstMeeting(sorted, performance_threshold) ==
    IF \E i \in 1..Len(sorted) : sorted[i].performance_score >= performance_threshold
    THEN CHOOSE i \in 1..Len(sorted) :
            /\ sorted[i].performance_score >= performance_threshold
            /\ \A j \in 1..(i - 1) : sorted[j].performance_score < performance_threshold
    ELSE 0

\* routing.py:111-119 (the timestamp left out)
Selection(selected_model, intensity, args, optimization) ==
    [ model_id              |-> selected_model.model_id,
      carbon_intensity      |-> intensity,
      task_complexity       |-> args.task_complexity,
      performance_threshold |-> args.performance_threshold,
      optimization_strategy |-> optimization.strategy_id,
      carbon_savings        |-> optimization.carbon_reduction ]

\* the record appended as soon as a model is selected
RecordedOnSelection(history, selection, outcome) ==
    IF outcome \in {"returned", "no_strategy"} THEN Append(history, selection) ELSE history

\* the record appended twice
RecordedTwice(history, selection, outcome) ==
    IF outcome = "returned" THEN Append(Append(history, selection), selection) ELSE history

\* routing.py:120: the append is the last statement that can fail or be
\* skipped; every raise of the body happens before it
Recorded(history, selection, outcome) ==
    IF outcome = "returned" THEN Append(history, selection) ELSE history

\* routing.py:55-57: select_model is called and awaits the carbon service
RoutingSelectModel(c, task_complexity, performance_threshold) ==
    /\ rpc[c] = "idle"
    /\ Len(request_history) + Cardinality({ d \in Callers : rpc[d] # "idle" }) < MaxHistory
    /\ rpc' = [rpc EXCEPT ![c] = "carbon"]
    /\ rargs' = [rargs EXCEPT ![c] =
          [task_complexity |-> task_complexity,
           performance_threshold |-> performance_threshold]]
    /\ UNCHANGED <<request_history, reply>>
    /\ UNCHANGED <<_models, _last_update, startup, running, pc, query, carbon,
                   analysis, carbon_tier, idx, loading, site, result, calls,
                   startedMeanwhile, classifierVars, analyzerVars, askVars, carbonVars>>

\* routing.py:57-136: the carbon service answers or raises, and the rest of
\* select_model runs without another await
RoutingResume(c) ==
    /\ rpc[c] = "carbon"
    /\ \E carbon_raised \in BOOLEAN : \E intensity \in RoutingIntensities :
       \E optimization \in Recommendations :
          LET sorted == SortByScore(ModelScores(intensity))
              pos == FirstMeeting(sorted, rargs[c].performance_threshold)
              outcome == IF carbon_raised THEN "carbon_error"
                         ELSE IF pos = 0 THEN "no_model"
                         ELSE IF optimization.raised THEN "no_strategy"
                         ELSE "returned"
              selected_model == sorted[IF pos = 0 THEN 1 ELSE pos]
              selection == Selection(selected_model, intensity, rargs[c], optimization)
          IN  /\ request_history' = Recorded(request_history, selection, outcome)
              /\ reply' = [ op |-> "select_model", outcome |-> outcome,
                            args |-> rargs[c],
                            selection_metrics |->
                                IF outcome = "returned"
                                THEN [carbon_impact |-> selected_model.carbon_impact,
                                      performance_score |-> selected_model.performance_score,
                                      overall_score |-> selected_model.score]
                                ELSE [carbon_impact |-> 0, performance_score |-> 0,
                                      overall_score |-> 0] ]
    /\ rpc' = [rpc EXCEPT ![c] = "idle"]
    /\ rargs' = [rargs EXCEPT ![c] = NoArgs]
    /\ UNCHANGED <<_models, _last_update, startup, running, pc, query, carbon,
                   analysis, carbon_tier, idx, loading, site, result, calls,
                   startedMeanwhile, classifierVars, analyzerVars, askVars, carbonVars>>

\* routing.py:148: lst[-limit:].  A negative start index counts from the
\* end and is clamped at 0; the start index -0 is 0, the whole list
SliceFromMinus(lst, limit) ==
    LET start == IF 0 - limit < 0
                 THEN (IF Len(lst) - limit < 0 THEN 0 ELSE Len(lst) - limit)
                 ELSE (IF 0 - limit > Len(lst) THEN Len(lst) ELSE 0 - limit)
    IN  SubSeq(lst, start + 1, Len(lst))

\* routing.py:138-148
GetRequestHistory(limit) ==
    /\ reply' = [ op |-> "get_request_history", limit |-> limit,
                  value |-> SliceFromMinus(request_history, limit) ]
    /\ UNCHANGED <<request_history, rpc, rargs>>
    /\ UNCHANGED <<_models, _last_update, startup, running, pc, query, carbon,
                   analysis, carbon_tier, idx, loading, site, result, calls,
                   startedMeanwhile, classifierVars, analyzerVars, askVars, carbonVars>>

\* sum(request[field] for request in history)
RECURSIVE SumField(_, _)
SumField(history, field) ==
    IF history = <<>> THEN 0
    ELSE history[1][field] + SumField(Tail(history), field)

\* the savings total taken from the performance thresholds
total_carbon_savings_from_threshold(history) ==
    SumField(history, "performance_threshold")

\* routing.py:165-167
total_carbon_savings(history) ==
    SumField(history, "carbon_savings")

\* routing.py:168-170
total_performance(history) ==
    SumField(history, "performance_threshold")

\* the empty history not told apart
HistoryEmptyNever(history) ==
    FALSE

\* routing.py:157: `if not self.request_history`
HistoryEmpty(history) ==
    history = <<>>

\* routing.py:150-176; a quotient a / b is the pair <<a, b>>, the literal 0 is <<0, 1>>
get_performance_metrics(history) ==
    IF HistoryEmpty(history)
    THEN [ raised |-> FALSE,
           total_requests |-> 0,
           average_carbon_savings |-> <<0, 1>>,
           average_performance_score |-> <<0, 1>> ]
    ELSE LET total_requests == Len(history)
         IN  IF total_requests = 0
             THEN [ raised |-> TRUE,   \* ZeroDivisionError at routing.py:174
                    total_requests |-> 0,
                    average_carbon_savings |-> <<0, 0>>,
                    average_performance_score |-> <<0, 0>> ]
             ELSE [ raised |-> FALSE,
                    total_requests |-> total_requests,
                    average_carbon_savings |-> <<total_carbon_savings(history), total_requests>>,
                    average_performance_score |-> <<total_performance(history), total_requests>> ]

GetPerformanceMetrics ==
    /\ reply' = [ op |-> "get_performance_metrics",
                  value |-> get_performance_metrics(request_history) ]
    /\ UNCHANGED <<request_history, rpc, rargs>>
    /\ UNCHANGED <<_models, _last_update, startup, running, pc, query, carbon,
                   analysis, carbon_tier, idx, loading, site, result, calls,
                   startedMeanwhile, classifierVars, analyzerVars, askVars, carbonVars>>

RoutingNext ==
    \/ \E c \in Callers : \E tc \in TaskComplexities : \E pt \in PerformanceThresholds :
          RoutingSelectModel(c, tc, pt)
    \/ \E c \in Callers : RoutingResume(c)
    \/ \E limit \in Limits : GetRequestHistory(limit)
    \/ GetPerformanceMetrics

RoutingSpec ==
    Init /\ [][RoutingNext]_vars

\* C17: get_performance_metrics never raises (no division by zero), and on
\* an empty history it returns total_requests 0, average_carbon_savings 0 and
\* average_performance_score 0.
C17_MetricsOfEmptyHistory ==
    reply.op = "get_performance_metrics" =>
        /\ ~reply.value.raised
        /\ request_history = <<>> =>
              /\ reply.value.total_requests = 0
              /\ reply.value.average_carbon_savings = <<0, 1>>
              /\ reply.value.average_performance_score = <<0, 1>>

\* the metrics were asked for while the history was empty
C17_Witness ==
    /\ reply.op = "get_performance_metrics"
    /\ request_history = <<>>
    /\ reply.value.total_requests = 0

\* the quotient <<a, b>> equals the quotient <<c, d>>
C18_SameQuotient(q1, q2) ==
    /\ q1[2] # 0
    /\ q2[2] # 0
    /\ q1[1] * q2[2] = q2[1] * q1[2]

\* C18: after successful selections get_performance_metrics returns
\* total_requests equal to the number of records and average_carbon_savings
\* equal to the sum of their carbon_savings divided by that number; savings
\* 0.4 and 0.6 give 0.5.
C18_MetricsAverageSavings ==
    (reply.op = "get_performance_metrics" /\ request_history # <<>>) =>
        /\ reply.value.total_requests = Len(request_history)
        /\ C18_SameQuotient(reply.value.average_carbon_savings,
              << SumField(request_history, "carbon_savings"), Len(request_history) >>)
        /\ ( /\ Len(request_history) = 2
             /\ { request_history[i].carbon_savings : i \in 1..2 } = {40, 60} ) =>
                C18_SameQuotient(reply.value.average_carbon_savings, <<50, 1>>)

\* the metrics of a history of two records with savings 0.4 and 0.6
C18_Witness ==
    /\ reply.op = "get_performance_metrics"
    /\ Len(request_history) = 2
    /\ request_history[1].carbon_savings = 40
    /\ request_history[2].carbon_savings = 60
    /\ reply.value.total_requests = 2
    /\ reply.value.average_carbon_savings = <<100, 2>>

\* C19: for every limit >= 0, get_request_history(limit) returns the last
\* min(limit, len(history)) records in append order; limit 0 returns the
\* empty list.
C19_LastLimitRecords ==
    reply.op = "get_request_history" =>
        LET n == IF reply.limit < Len(request_history)
                 THEN reply.limit ELSE Len(request_history)
        IN  /\ Len(reply.value) = n
            /\ \A i \in 1..n :
                  reply.value[i] = request_history[Len(request_history) - n + i]
            /\ reply.limit = 0 => reply.value = <<>>

\* what a select_model call that ended in this step appended
C20_CallEnded(c) ==
    rpc[c] = "carbon" /\ rpc'[c] = "idle"

\* C20: the history is append-only: a select_model call that returns appends
\* exactly one record, its own, at the end; a call that raises (carbon lookup
\* failure, no model meeting the threshold, no optimization strategy) leaves
\* the history unchanged; no other step changes the history.
C20_HistoryAppendOnly ==
    [][ /\ Len(request_history') >= Len(request_history)
        /\ SubSeq(request_history', 1, Len(request_history)) = request_history
        /\ \A c \in Callers : C20_CallEnded(c) =>
              IF reply'.outcome = "returned"
              THEN /\ Len(request_history') = Len(request_history) + 1
                   /\ request_history'[Len(request_history')].task_complexity
                          = rargs[c].task_complexity
                   /\ request_history'[Len(request_history')].performance_threshold
                          = rargs[c].performance_threshold
              ELSE request_history' = request_history
        /\ (\A c \in Callers : ~C20_CallEnded(c)) => request_history' = request_history
      ]_vars

\* a call raised for want of an optimization strategy while the history held
\* a record
C20_Witness ==
    /\ reply.op = "select_model"
    /\ reply.outcome = "no_strategy"
    /\ Len(request_history) = 1

\* the fields of a complete record (routing.py:111-119, the timestamp left out)
C21_RecordFields ==
    {"model_id", "carbon_intensity", "task_complexity", "performance_threshold",
     "optimization_strategy", "carbon_savings"}

\* C21: when select_model calls of several callers interleave at their
\* await, every call that returns adds exactly one complete record, its own,
\* at the end, and no step loses, duplicates or changes a record; every
\* get_request_history and get_performance_metrics result is the result on
\* the history as it is at the call, which is a prefix of every later history.
C21_LedgerLinearizable ==
    /\ [][ /\ Len(request_history') >= Len(request_history)
           /\ SubSeq(request_history', 1, Len(request_history)) = request_history
           /\ \A c \in Callers :
                (rpc[c] = "carbon" /\ rpc'[c] = "idle" /\ reply'.outcome = "returned") =>
                  LET record == request_history'[Len(request_history')]
                  IN  /\ request_history' = Append(request_history, record)
                      /\ DOMAIN record = C21_RecordFields
                      /\ record.task_complexity = rargs[c].task_complexity
                      /\ record.performance_threshold = rargs[c].performance_threshold
                      /\ record.optimization_strategy # None
         ]_vars
    /\ [][ reply'.op = "get_request_history" =>
              /\ request_history' = request_history
              /\ reply'.value = SliceFromMinus(request_history, reply'.limit) ]_vars
    /\ [][ reply'.op = "get_performance_metrics" =>
              /\ request_history' = request_history
              /\ reply'.value = get_performance_metrics(request_history) ]_vars

\* a call has returned and left its record while the call of another caller,
\* started before, is still waiting for the carbon service
C21_Witness ==
    /\ reply.op = "select_model"
    /\ reply.outcome = "returned"
    /\ Len(request_history) = 1
    /\ \E c \in Callers : rpc[c] = "carbon"

\* C23: a select_model call that returns has selected, among the available
\* models whose performance_score is at least performance_threshold, one
\* with the highest overall score, and reports its performance_score, which
\* is at least the threshold; a call for which no available model meets the
\* threshold raises (the carbon service's error or the ValueError) and
\* the ValueError "no suitable model" is raised only then.
C23_Eligible(performance_threshold) ==
    { i \in 1..Len(AvailableModels) :
        AvailableModels[i].performance_score >= performance_threshold }

C23_BestEligibleSelected ==
    reply.op = "select_model" =>
      LET eligible == C23_Eligible(reply.args.performance_threshold)
      IN  /\ reply.outcome = "returned" =>
               LET record == request_history[Len(request_history)]
                   scores == ModelScores(record.carbon_intensity)
               IN  /\ reply.selection_metrics.performance_score
                         >= reply.args.performance_threshold
                   /\ \E i \in eligible :
                        /\ record.model_id = AvailableModels[i].model_id
                        /\ reply.selection_metrics.performance_score
                              = AvailableModels[i].performance_score
                        /\ reply.selection_metrics.overall_score = scores[i].score
                        /\ \A j \in eligible : scores[j].score <= scores[i].score
          /\ reply.outcome = "no_model" => eligible = {}
          /\ eligible = {} => reply.outcome \in {"carbon_error", "no_model"}

\* a call returned gpt2-medium although gpt2-small has the higher overall
\* score, because only gpt2-medium meets the threshold
C23_Witness ==
    /\ reply.op = "select_model"
    /\ reply.outcome = "returned"
    /\ request_history[Len(request_history)].model_id = "gpt2-medium"
    /\ LET scores == ModelScores(request_history[Len(request_history)].carbon_intensity)
       IN  scores[1].score > scores[2].score

\* C24: a select_model call whose task_complexity lies outside [0, 1] does
\* not return, and the history holds no record of such a call.
C24_OutOfRangeComplexityRejected ==
    /\ ( /\ reply.op = "select_model"
         /\ ~(reply.args.task_complexity \in 0..100) ) =>
            reply.outcome # "returned"
    /\ \A i \in 1..Len(request_history) :
          request_history[i].task_complexity \in 0..100

\* ------------------------------------------------------------------------
\* The HTTP router (routes/router.py).  Each endpoint takes its
\* RoutingService from Depends(get_routing_service), which builds a new
\* one for the request; request_history is the history of the service
\* built last.  Requests are handled one after the other.
\* ------------------------------------------------------------------------
\* router.py:20-26 with routing.py:36: the history of a new RoutingService
get_routing_service ==
    <<>>

\* schemas/router.py:13-24: ModelSelectionRequest accepts values in [0, 1]
ModelSelectionRequest(task_complexity, performance_threshold) ==
    /\ task_complexity \in 0..100
    /\ performance_threshold \in 0..100

\* router.py:28-47: POST /router/select-model up to the await in select_model
RouterSelectModel(c, task_complexity, performance_threshold) ==
    /\ \A d \in Callers : rpc[d] = "idle"
    /\ ModelSelectionRequest(task_complexity, performance_threshold)
    /\ request_history' = get_routing_service
    /\ rpc' = [rpc EXCEPT ![c] = "carbon"]
    /\ rargs' = [rargs EXCEPT ![c] =
          [task_complexity |-> task_complexity,
           performance_threshold |-> performance_threshold]]
    /\ UNCHANGED reply
    /\ UNCHANGED <<_models, _last_update, startup, running, pc, query, carbon,
                   analysis, carbon_tier, idx, loading, site, result, calls,
                   startedMeanwhile, classifierVars, analyzerVars, askVars, carbonVars>>

\* router.py:53-67: GET /router/request-history
RouterGetRequestHistory(limit) ==
    /\ \A d \in Callers : rpc[d] = "idle"
    /\ request_history' = get_routing_service
    /\ reply' = [ op |-> "get_request_history", limit |-> limit,
                  value |-> SliceFromMinus(request_history', limit) ]
    /\ UNCHANGED <<rpc, rargs>>
    /\ UNCHANGED <<_models, _last_update, startup, running, pc, query, carbon,
                   analysis, carbon_tier, idx, loading, site, result, calls,
                   startedMeanwhile, classifierVars, analyzerVars, askVars, carbonVars>>

\* router.py:69-79: GET /router/performance-metrics
RouterGetPerformanceMetrics ==
    /\ \A d \in Callers : rpc[d] = "idle"
    /\ request_history' = get_routing_service
    /\ reply' = [ op |-> "get_performance_metrics",
                  value |-> get_performance_metrics(request_history') ]
    /\ UNCHANGED <<rpc, rargs>>
    /\ UNCHANGED <<_models, _last_update, startup, running, pc, query, carbon,
                   analysis, carbon_tier, idx, loading, site, result, calls,
                   startedMeanwhile, classifierVars, analyzerVars, askVars, carbonVars>>

RouterNext ==
    \/ \E c \in Callers : \E tc \in TaskComplexities : \E pt \in PerformanceThresholds :
          RouterSelectModel(c, tc, pt)
    \/ \E c \in Callers : RoutingResume(c)
    \/ \E limit \in Limits : RouterGetRequestHistory(limit)
    \/ RouterGetPerformanceMetrics

RouterSpec ==
    Init /\ [][RouterNext]_vars

\* C28: a GET /router/request-history or GET /router/performance-metrics
\* request handled after a POST /router/select-model request that recorded
\* its selection reads that record: the history it reads is not empty.
C28_RecordedSelectionVisible ==
    [][ ( /\ reply.op = "select_model"
          /\ reply.outcome = "returned" ) =>
            /\ ( /\ reply'.op = "get_request_history"
                 /\ reply'.limit >= 1 ) => reply'.value # <<>>
            /\ reply'.op = "get_performance_metrics" =>
                  reply'.value.total_requests >= 1
      ]_vars

\* ------------------------------------------------------------------------
\* CarbonService.get_carbon_intensity in live mode (carbon.py:84-183):
\* MOCK_MODE is False and the API key is set (carbon.py:21-25).  The calls
\* of the requests share the one service of main.py:22 and interleave at
\* the awaits of the fetch.
\* ------------------------------------------------------------------------
outsideCarbon ==
    <<_models, _last_update, startup, running, pc, query, carbon, analysis,
      carbon_tier, idx, loading, site, result, calls, startedMeanwhile,
      classifierVars, analyzerVars, askVars, ledgerVars>>

\* carbon.py:98-99
CacheFresh(last_update, now) ==
    /\ last_update # NoUpdate
    /\ now - last_update < CACHE_DURATION

\* the answer after a failed fetch, from the cache up to and including the age of one hour
FailureReply_inclusive(last_update, last_value, now) ==
    IF last_update # NoUpdate /\ now - last_update <= FALLBACK_AGE
    THEN [status |-> "cached", carbon_intensity |-> last_value]
    ELSE [status |-> "error", carbon_intensity |-> DEFAULT_CARBON_INTENSITY]

\* carbon.py:168-183
FailureReply(last_update, last_value, now) ==
    IF last_update # NoUpdate /\ now - last_update < FALLBACK_AGE
    THEN [status |-> "cached", carbon_intensity |-> last_value]
    ELSE [status |-> "error", carbon_intensity |-> DEFAULT_CARBON_INTENSITY]

\* time passes; a fetch in flight ends within its timeout
ClockAdvance ==
    /\ clock < Len(Instants)
    /\ \A r \in Requests :
          cpc[r] = "fetching" => Instants[clock + 1] - cnow[r] <= FetchTimeout
    /\ clock' = clock + 1
    /\ UNCHANGED <<carbon_last_update, _last_value, _error_count, cpc, cnow,
                   cseen, newest_fetch, carbon_data>>
    /\ UNCHANGED outsideCarbon

\* carbon.py:91-109: the call reads the clock and answers from the cache,
\* or starts the fetch and awaits the API
GetCarbonIntensity(r) ==
    /\ cpc[r] = "idle"
    /\ LET now == Instants[clock]
       IN  IF CacheFresh(carbon_last_update, now)
           THEN /\ carbon_data' = [caller |-> r, status |-> "cached",
                                   carbon_intensity |-> _last_value, now |-> now,
                                   requested |-> FALSE, seen |-> newest_fetch]
                /\ UNCHANGED <<cpc, cnow, cseen>>
           ELSE /\ cpc' = [cpc EXCEPT ![r] = "fetching"]
                /\ cnow' = [cnow EXCEPT ![r] = now]
                /\ cseen' = [cseen EXCEPT ![r] = newest_fetch]
                /\ UNCHANGED carbon_data
    /\ UNCHANGED <<clock, carbon_last_update, _last_value, _error_count, newest_fetch>>
    /\ UNCHANGED outsideCarbon

\* carbon.py:123-153: the API answered 200 with a well-formed body
FetchSucceeds(r, intensity) ==
    /\ cpc[r] = "fetching"
    /\ _last_value' = intensity
    /\ carbon_last_update' = cnow[r]
    /\ _error_count' = 0
    /\ newest_fetch' = IF cnow[r] > newest_fetch THEN cnow[r] ELSE newest_fetch
    /\ carbon_data' = [caller |-> r, status |-> "live", carbon_intensity |-> intensity,
                       now |-> cnow[r], requested |-> TRUE, seen |-> cseen[r]]
    /\ cpc' = [cpc EXCEPT ![r] = "idle"]
    /\ cnow' = [cnow EXCEPT ![r] = 0]
    /\ cseen' = [cseen EXCEPT ![r] = NoUpdate]
    /\ UNCHANGED clock
    /\ UNCHANGED outsideCarbon

\* carbon.py:127-128, 154-183: the request failed, the status was not 200 or
\* the body could not be used; the outer handler answers
FetchFails(r) ==
    /\ cpc[r] = "fetching"
    /\ _error_count < MaxErrors
    /\ _error_count' = _error_count + 1
    /\ LET answer == FailureReply(carbon_last_update, _last_value, cnow[r])
       IN  carbon_data' = [caller |-> r, status |-> answer.status,
                           carbon_intensity |-> answer.carbon_intensity,
                           now |-> cnow[r], requested |-> TRUE, seen |-> cseen[r]]
    /\ cpc' = [cpc EXCEPT ![r] = "idle"]
    /\ cnow' = [cnow EXCEPT ![r] = 0]
    /\ cseen' = [cseen EXCEPT ![r] = NoUpdate]
    /\ UNCHANGED <<clock, carbon_last_update, _last_value, newest_fetch>>
    /\ UNCHANGED outsideCarbon

CarbonNext ==
    \/ ClockAdvance
    \/ \E r \in Requests : GetCarbonIntensity(r)
    \/ \E r \in Requests : \E intensity \in FetchedIntensities : FetchSucceeds(r, intensity)
    \/ \E r \in Requests : FetchFails(r)

CarbonSpec ==
    Init /\ [][CarbonNext]_vars

\* C29: a call that reads the clock less than 300 seconds after the clock
\* reading of a fetch that had succeeded before it answers with status
\* "cached" and sends no request to the API; a call that reads the clock
\* 300 seconds or more after the latest such reading sends a request.
C29_CachedFor300Seconds ==
    ( /\ carbon_data.status # None
      /\ carbon_data.seen # NoUpdate ) =>
         IF carbon_data.now - carbon_data.seen < CACHE_DURATION
         THEN /\ carbon_data.status = "cached"
              /\ ~carbon_data.requested
              /\ carbon_data.carbon_intensity \in FetchedIntensities
         ELSE carbon_data.requested

\* C30: every call in live mode returns an answer.  A fetch that fails adds
\* one to the error count, leaves the cached value and the last-update time
\* as they are, and is answered with the cached value and status "cached"
\* when the last update is less than 3600 seconds before the call's clock
\* reading, otherwise with the default 300 and status "error"; the error
\* count goes back to 0 only when a fetch succeeds.
C30_FailedFetchAnswered ==
    /\ [](carbon_data.status \in {None, "live", "cached", "error"})
    /\ [][ \A r \in Requests :
             ( /\ cpc[r] = "fetching"
               /\ cpc'[r] = "idle"
               /\ carbon_data'.status # "live" ) =>
                  /\ _error_count' = _error_count + 1
                  /\ _last_value' = _last_value
                  /\ carbon_last_update' = carbon_last_update
                  /\ carbon_data'.requested
                  /\ IF /\ carbon_last_update # NoUpdate
                        /\ cnow[r] - carbon_last_update < 3600
                     THEN /\ carbon_data'.status = "cached"
                          /\ carbon_data'.carbon_intensity = _last_value
                     ELSE /\ carbon_data'.status = "error"
                          /\ carbon_data'.carbon_intensity = 300
         ]_vars
    /\ [][ _error_count' # _error_count =>
             \/ _error_count' = _error_count + 1
             \/ /\ _error_count' = 0
                /\ carbon_data'.status = "live"
                /\ carbon_last_update' = carbon_data'.now
                /\ _last_value' = carbon_data'.carbon_intensity
         ]_vars

\* a fetch failed exactly 3600 seconds after the last successful update and
\* was answered with the default, as the second failure in a row
C30_Witness ==
    /\ carbon_data.status = "error"
    /\ carbon_data.requested
    /\ carbon_last_update # NoUpdate
    /\ carbon_data.now - carbon_last_update = 3600
    /\ _error_count = 2

\* ------------------------------------------------------------------------
\* ask_query with model 'auto', its reading taken from the carbon service
\* (main.py:124-135)
\* ------------------------------------------------------------------------
\* main.py:126: a handler awaits carbon_service.get_carbon_intensity()
QueryCarbon ==
    /\ ask_pc \in {"idle", "responded"}
    /\ pc[Asker] = "idle"
    /\ GetCarbonIntensity(Asker)

\* main.py:126-133: the handler has its carbon_data and, the model being
\* 'auto', goes on to select_model
QueryAuto ==
    /\ cpc[Asker] = "idle"
    /\ carbon_data.caller = Asker
    /\ AskAuto

\* main.py:127, 132-133: select_model(query.text, carbon_data["carbon_intensity"])
QuerySelectModel(q) ==
    /\ ask_pc = "selecting"
    /\ SelectModel(Asker, q, carbon_data.carbon_intensity)

QueryNext ==
    \/ Initialize
    \/ ServeWithoutStartup
    \/ ClockAdvance
    \/ QueryCarbon
    \/ \E intensity \in FetchedIntensities : FetchSucceeds(Asker, intensity)
    \/ FetchFails(Asker)
    \/ QueryAuto
    \/ \E q \in Queries : QuerySelectModel(q)
    \/ Rule1(Asker)
    \/ Rule2(Asker)
    \/ Loop(Asker)
    \/ LoadBackend(Asker)
    \/ Default(Asker)
    \/ AskSelected
    \/ GenLoadRequested
    \/ GenInfer

QuerySpec ==
    Init /\ [][QueryNext]_vars

\* C27: a call answered with status "error" carries the default reading 300,
\* and was made when no successful update less than 3600 seconds old
\* existed; a request with model 'auto' that got such an answer hands 300 to
\* select_model, which puts it in tier high, returns tinyllama and calls
\* _load_model for no model.
C27_DefaultReadingSelectsBaseline ==
    carbon_data.status = "error" =>
      /\ carbon_data.carbon_intensity = 300
      /\ carbon_data.requested
      /\ \/ carbon_last_update = NoUpdate
         \/ carbon_data.now - carbon_last_update >= 3600
      /\ pc[Asker] \notin {"idle", "pending"} =>
            /\ carbon[Asker] = 300
            /\ carbon_tier[Asker] = "high"
            /\ calls[Asker] = <<>>
            /\ loading[Asker] = None
            /\ pc[Asker] # "raised"
            /\ pc[Asker] = "returned" => result[Asker] = "tinyllama"
      /\ ( /\ requested = "auto"
           /\ ask_pc \in {"generate", "load_fallback", "infer"} ) =>
              ask_model_name = "tinyllama"

\* select_model has returned for a request that asks for code and was
\* served while the provider was failing and the service was started and
\* holds codellama
C27_Witness ==
    /\ carbon_data.status = "error"
    /\ pc[Asker] = "returned"
    /\ analysis[Asker].is_code
    /\ startup = "ok"
    /\ "codellama" \in DOMAIN _models

====
